---- MODULE Spec2Model ----
(***************************************************************************)
(* Model of mainFramework.py: the minute-by-minute simulation loop         *)
(* (run_scenario), the battery dispatch controller (bess_control_step)     *)
(* and the telemetry readers that sit between them and the circuit solver. *)
(*                                                                         *)
(* Numbers.  Powers are integers in kW, voltages integers in V.  A state   *)
(* of charge is an integer in tenths of a percent, so 20.5 % is 205 and    *)
(* the default 40.0 % is 400.  A float NaN is the value NaN below; a       *)
(* property string that float() cannot parse is the value BadStr.          *)
(*                                                                         *)
(* The solver is a black box.  A solve leaves an electrical solution       *)
(* (element powers, bus voltages, which elements are addressable) that     *)
(* the readers see until the next solve; the alternate source's state and  *)
(* the storage element's %stored property are answered per read.           *)
(***************************************************************************)
EXTENDS Integers, Sequences, FiniteSets, TLC

\* ---------------------------------------------------------------- bounds
\* Number of simulated minutes of one run (1440 in the program).
MINUTES == 2

\* Number of runs a caller makes of one scenario when it runs it again.
CALLS == 2

\* ------------------------------------------------------------- constants
RESERVE_PCT == 200
SOC_HYST == 5
TARGET_LOAD_KW == 15
PV_CHARGE_KW == 10
PV_CHARGE_MIN_KW == 2
SOC_MAX_CHARGE == 950
\* prev_soc = 40.0 at the start of a run, and the controller's last resort
SOC_DEFAULT == 400
\* limit_power: abs(val) > 1e6
POWER_LIMIT == 1000000
\* get_bus_voltage_v: v > 1e4
VOLT_LIMIT == 10000

HOMES == {"home1", "home2"}

NaN == -999999999
BadStr == -999999998

\* --------------------------------------------------------------- helpers
Max(a, b) == IF a >= b THEN a ELSE b
Abs(x) == IF x < 0 THEN -x ELSE x

\* float arithmetic as far as the program uses it: NaN is absorbing
Neg(x) == IF x = NaN THEN NaN ELSE -x
Add(x, y) == IF x = NaN \/ y = NaN THEN NaN ELSE x + y

\* Variant: only the positive side is bounded.
limit_power_signed(val) ==
    IF val = NaN THEN 0
    ELSE IF val > POWER_LIMIT THEN 0
    ELSE val

limit_power(val) ==
    IF val = NaN THEN 0
    ELSE IF Abs(val) > POWER_LIMIT THEN 0
    ELSE val

\* sum(pw[0:6:2]): the entries at the Python indices 0, 2 and 4 that exist
Entry(pw, i) == IF i <= Len(pw) THEN pw[i] ELSE 0
SumPhases(pw) == Add(Add(Entry(pw, 1), Entry(pw, 3)), Entry(pw, 5))

\* ------------------------------------------------------------- telemetry
\* A storage read answer: whether Storage.mobilebat could be selected and
\* what its %stored property holds.
StorageAnswer(sel, stored) == [sel |-> sel, stored |-> stored]

\* get_bess_soc_and_power, first component
bess_soc(ans) ==
    IF ~ans.sel THEN 0
    ELSE IF ans.stored = BadStr THEN 0
    ELSE IF ans.stored = NaN THEN 0
    ELSE ans.stored

\* get_bess_soc_and_power, second component
bess_power(ans, pw) ==
    IF ans.sel /\ pw # <<>> THEN Abs(limit_power(SumPhases(pw))) ELSE 0

\* get_pv_kw; Powers()[0] of an empty answer raises IndexError
pv_raises(s) == s.pvsel /\ s.pven /\ s.pvpw = <<>>
get_pv_kw(s) ==
    IF s.pvsel /\ s.pven THEN limit_power(Neg(s.pvpw[1])) ELSE 0

\* get_total_load_kw
LoadOf(s, h) ==
    IF s.loadsel[h] /\ s.loadpw[h] # <<>>
    THEN Abs(limit_power(SumPhases(s.loadpw[h])))
    ELSE 0

RECURSIVE SumLoads(_, _)
SumLoads(s, hs) ==
    IF hs = {} THEN 0
    ELSE LET h == CHOOSE x \in hs : TRUE
         IN LoadOf(s, h) + SumLoads(s, hs \ {h})

get_total_load_kw(s) == SumLoads(s, HOMES)

\* get_bus_voltage_v; vm is None (some = FALSE) or a sequence
get_bus_voltage_v(vm) ==
    IF ~vm.some \/ Len(vm.vals) < 1 THEN 0
    ELSE IF vm.vals[1] = NaN \/ vm.vals[1] > VOLT_LIMIT THEN 0
    ELSE vm.vals[1]

\* ------------------------------------------------- dispatch controller
\* One entry of the solver call log: the operation, its text, and a number
\* (the kW of a storage command, the minute of an event, solve or read).
Call(op, arg, n) == [op |-> op, arg |-> arg, n |-> n]

\* dss.Command("edit Storage.mobilebat State=<state> kW=<kw>")
StorageCmd(state, kw) == Call("storage", state, kw)

\* Variant: a disabled battery reports the default when nothing is carried.
DisabledStep_defaulted(prev_soc) ==
    [ret |-> IF prev_soc > 0 THEN prev_soc ELSE SOC_DEFAULT,
     cmds |-> <<StorageCmd("IDLING", 0)>>, reads |-> 0]

\* bess_control_step, enabled = False
DisabledStep(prev_soc) ==
    [ret |-> prev_soc, cmds |-> <<StorageCmd("IDLING", 0)>>, reads |-> 0]

\* Variant: an invalid read always falls back to the default.
DecisionSoc_default(soc, prev_soc) ==
    IF soc <= 0 THEN SOC_DEFAULT ELSE soc

\* Variant: a read of exactly zero is taken as valid.
DecisionSoc_zerovalid(soc, prev_soc) ==
    IF soc < 0
    THEN (IF prev_soc > 0 THEN prev_soc ELSE SOC_DEFAULT)
    ELSE soc

\* bess_control_step: the state of charge the decision uses
DecisionSoc(soc, prev_soc) ==
    IF soc <= 0
    THEN (IF prev_soc > 0 THEN prev_soc ELSE SOC_DEFAULT)
    ELSE soc

\* Variant: the reserve stop excludes the boundary.
IslandCmds_strict(soc, pv_kw) ==
    IF soc < RESERVE_PCT + SOC_HYST
    THEN <<StorageCmd("IDLING", 0)>>
    ELSE <<StorageCmd("DISCHARGING", Max(0, TARGET_LOAD_KW - pv_kw))>>

\* bess_control_step, is_island branch
IslandCmds(soc, pv_kw) ==
    LET soc_stop == RESERVE_PCT + SOC_HYST
    IN IF soc <= soc_stop
       THEN <<StorageCmd("IDLING", 0)>>
       ELSE <<StorageCmd("DISCHARGING", Max(0, TARGET_LOAD_KW - pv_kw))>>

\* Variant: charging starts at the PV minimum itself.
GridCmds_atmin(soc, pv_kw) ==
    (IF pv_kw >= PV_CHARGE_MIN_KW /\ soc < SOC_MAX_CHARGE
     THEN <<StorageCmd("CHARGING", PV_CHARGE_KW)>>
     ELSE <<StorageCmd("IDLING", 0)>>)
    \o (IF soc >= SOC_MAX_CHARGE THEN <<StorageCmd("IDLING", 0)>> ELSE <<>>)

\* Variant: the charge cap itself still charges.
GridCmds_capincl(soc, pv_kw) ==
    (IF pv_kw > PV_CHARGE_MIN_KW /\ soc <= SOC_MAX_CHARGE
     THEN <<StorageCmd("CHARGING", PV_CHARGE_KW)>>
     ELSE <<StorageCmd("IDLING", 0)>>)
    \o (IF soc > SOC_MAX_CHARGE THEN <<StorageCmd("IDLING", 0)>> ELSE <<>>)

\* bess_control_step, grid-connected branch with the charge-full override
GridCmds(soc, pv_kw) ==
    (IF pv_kw > PV_CHARGE_MIN_KW /\ soc < SOC_MAX_CHARGE
     THEN <<StorageCmd("CHARGING", PV_CHARGE_KW)>>
     ELSE <<StorageCmd("IDLING", 0)>>)
    \o (IF soc >= SOC_MAX_CHARGE THEN <<StorageCmd("IDLING", 0)>> ELSE <<>>)

\* Variant: the two dispatch branches are exchanged.
bess_control_step_swapped(is_island, pv_kw, prev_soc, enabled, ans) ==
    IF ~enabled THEN DisabledStep(prev_soc)
    ELSE LET soc == DecisionSoc(bess_soc(ans), prev_soc)
         IN [ret |-> soc,
             cmds |-> IF is_island THEN GridCmds(soc, pv_kw)
                      ELSE IslandCmds(soc, pv_kw),
             reads |-> 1]

\* bess_control_step; ans is what the solver answers to the one telemetry
\* read the enabled path makes
bess_control_step(is_island, pv_kw, prev_soc, enabled, ans) ==
    IF ~enabled THEN DisabledStep(prev_soc)
    ELSE LET soc == DecisionSoc(bess_soc(ans), prev_soc)
         IN [ret |-> soc,
             cmds |-> IF is_island THEN IslandCmds(soc, pv_kw)
                      ELSE GridCmds(soc, pv_kw),
             reads |-> 1]

\* --------------------------------------------------------------- results
\* Variant: one accumulator starts with an entry.
init_results_seeded(minutes, homes) ==
    [minutes |-> minutes,
     homes |-> homes,
     pv_kw |-> <<>>,
     bat_kw |-> <<>>,
     soc_pct |-> <<>>,
     load_kw |-> <<0>>,
     supply_kw |-> <<>>,
     island_flag |-> <<>>,
     voltages |-> [h \in homes |-> <<>>],
     stability_minutes |-> 0]

init_results(minutes, homes) ==
    [minutes |-> minutes,
     homes |-> homes,
     pv_kw |-> <<>>,
     bat_kw |-> <<>>,
     soc_pct |-> <<>>,
     load_kw |-> <<>>,
     supply_kw |-> <<>>,
     island_flag |-> <<>>,
     voltages |-> [h \in homes |-> <<>>],
     stability_minutes |-> 0]

\* Variant: the boundary counts as stable.
StableMinute_atleast(isl, s) == isl /\ s >= RESERVE_PCT + SOC_HYST

\* run_scenario: does this minute count toward stability_minutes
StableMinute(isl, s) == isl /\ s > RESERVE_PCT + SOC_HYST

\* Variant: the sum is not clamped.
SupplyOf_unclamped(pv, bat) == pv + bat

\* run_scenario: the value appended to supply_kw
SupplyOf(pv, bat) == Max(0, pv + bat)

\* Variant: the controller's returned value is always the one carried on.
RecordedSoc_after(s, after) == after

\* Variant: the battery read is recorded without a fallback.
RecordedSoc_nofallback(s, after) == s

\* run_scenario: the state of charge recorded after the dispatch
RecordedSoc(s, after) == IF s > 0 THEN s ELSE after

\* Variant: the list is walked backwards.
EventCalls_reversed(events, m) ==
    IF m \in DOMAIN events
    THEN [i \in 1..Len(events[m]) |->
             Call("event", events[m][Len(events[m]) + 1 - i], m)]
    ELSE <<>>

\* run_scenario: the event commands of minute m, in list order
EventCalls(events, m) ==
    IF m \in DOMAIN events
    THEN [i \in 1..Len(events[m]) |-> Call("event", events[m][i], m)]
    ELSE <<>>

\* ------------------------------------------------------------ scenarios
\* ScenarioConfig values, with the minute keys of the event schedules
\* placed relative to MINUTES: keys inside and outside 0..MINUTES-1, a
\* minute with no key, and a list that names one command twice.
ScenarioA ==
    [name |-> "scenario_A", pv_shape |-> "pvshape1", pv_enabled |-> TRUE,
     bess_enabled |-> TRUE,
     events |-> (0 :> <<"edit line.sw2 enabled=no">>)
                @@ (MINUTES - 1 :> <<"edit vsource.dummy_1 enabled=yes",
                                     "edit line.mbs_s1 enabled=yes">>)]

ScenarioB ==
    [name |-> "scenario_B", pv_shape |-> "pvshape2", pv_enabled |-> FALSE,
     bess_enabled |-> FALSE,
     events |-> (1 :> <<"edit line.sw2 enabled=no">>)
                @@ (MINUTES :> <<"edit line.sw4 enabled=no">>)
                @@ (-1 :> <<"edit line.mbs_s2 enabled=no">>)]

ScenarioC ==
    [name |-> "scenario_C", pv_shape |-> "pvshape1", pv_enabled |-> TRUE,
     bess_enabled |-> TRUE,
     events |-> (MINUTES - 1 :> <<"edit line.mbs_s1 enabled=no",
                                  "edit vsource.dummy_1 enabled=no",
                                  "edit line.mbs_s1 enabled=no">>)
                @@ (MINUTES + 5 :> <<"edit vsource.dummy_1 enabled=yes">>)]

Scenarios == {ScenarioA, ScenarioB, ScenarioC}

\* ------------------------------------------------- what the solver says
Bus(some, vals) == [some |-> some, vals |-> vals]

\* An ordinary solution: PV generating 3 kW, battery at 3 kW.
SolNormal ==
    [pvsel |-> TRUE, pven |-> TRUE, pvpw |-> <<-3, 1>>,
     batpw |-> <<-3, 0, 0, 0>>,
     loadsel |-> [h \in HOMES |-> TRUE],
     loadpw |-> [h \in HOMES |-> <<4, 1>>],
     busvm |-> [h \in HOMES |-> Bus(TRUE, <<230, 0>>)]]

\* PV element drawing 5 kW, one load not addressable, bad bus readings.
SolReverse ==
    [pvsel |-> TRUE, pven |-> TRUE, pvpw |-> <<5, 0>>,
     batpw |-> <<2, 0, 1, 0>>,
     loadsel |-> [h \in HOMES |-> h # "home1"],
     loadpw |-> [h \in HOMES |-> <<-2, 0>>],
     busvm |-> [h \in HOMES |->
                  IF h = "home1" THEN Bus(TRUE, <<NaN, 0>>)
                  ELSE Bus(TRUE, <<VOLT_LIMIT + 1, 0>>)]]

\* Numeric blow-up and absent answers: everything reads as zero.
SolBlowup ==
    [pvsel |-> TRUE, pven |-> FALSE, pvpw |-> <<>>,
     batpw |-> <<POWER_LIMIT + 1, 0>>,
     loadsel |-> [h \in HOMES |-> TRUE],
     loadpw |-> [h \in HOMES |->
                   IF h = "home1" THEN <<>> ELSE <<NaN, 0, 3, 0>>],
     busvm |-> [h \in HOMES |->
                  IF h = "home1" THEN Bus(FALSE, <<>>) ELSE Bus(TRUE, <<>>)]]

\* PV element enabled but its power answer is empty.
SolEmptyPV == [SolNormal EXCEPT !.pvpw = <<>>]

Solutions == {SolNormal, SolReverse, SolBlowup, SolEmptyPV}

\* Answers to a %stored read inside the loop.
LoopAnswers ==
    {StorageAnswer(FALSE, 0), StorageAnswer(TRUE, NaN),
     StorageAnswer(TRUE, BadStr), StorageAnswer(TRUE, 0),
     StorageAnswer(TRUE, RESERVE_PCT + SOC_HYST),
     StorageAnswer(TRUE, 1010)}

\* ----------------------------------------------------------------- state
VARIABLES
    pc,         \* position in run_scenario, or in a direct call
    cfg,        \* the ScenarioConfig of the run
    t,          \* loop index
    res,        \* the ScenarioResults being built
    prev_soc,   \* state of charge carried across minutes
    island,     \* locals of the loop body
    pv_kw,
    soc_after,
    soc,
    bat_kw,
    sol,        \* the solver's solution since the last solve
    log,        \* the calls this run made to the solver, in order, with a
                \* mark where a call raised and where the loop body updated
                \* the stability counter and appended the supply
    ctl,        \* the last controller call: its arguments and what it did
    answer,     \* the %stored answer given to a direct controller call
    runs,       \* the caller: how many runs it makes, which one this is,
                \* what the solver answered in the first, and its result
    probe       \* a direct call of a reader: its inputs and its result

vars == <<pc, cfg, t, res, prev_soc, island, pv_kw, soc_after, soc, bat_kw,
          sol, log, ctl, answer, runs, probe>>

NoCtl ==
    [called |-> FALSE, is_island |-> FALSE, pv_kw |-> 0, prev_soc |-> 0,
     enabled |-> FALSE, read |-> 0, ret |-> 0, cmds |-> <<>>, reads |-> 0,
     minute |-> -1]

\* What one controller call leaves behind.
CtlRecord(isl, pv, prev, en, ans, m) ==
    LET r == bess_control_step(isl, pv, prev, en, ans)
    IN [called |-> TRUE, is_island |-> isl, pv_kw |-> pv, prev_soc |-> prev,
        enabled |-> en, read |-> bess_soc(ans), ret |-> r.ret,
        cmds |-> r.cmds, reads |-> r.reads, minute |-> m]

\* A caller that makes n runs of the same scenario.
Caller(n) ==
    [planned |-> n, index |-> 1, tape |-> <<>>,
     first |-> init_results(MINUTES, HOMES)]

NoProbe == [fn |-> "none", ok |-> FALSE, en |-> FALSE, raw |-> 0,
            flag |-> FALSE, val |-> 0]

Init ==
    /\ pc = "start"
    /\ cfg \in Scenarios
    /\ t = 0
    /\ res = init_results(MINUTES, HOMES)
    /\ prev_soc = 0
    /\ island = FALSE
    /\ pv_kw = 0
    /\ soc_after = 0
    /\ soc = 0
    /\ bat_kw = 0
    /\ sol = SolNormal
    /\ log = <<>>
    /\ ctl = NoCtl
    /\ answer = StorageAnswer(FALSE, 0)
    /\ runs = Caller(1)
    /\ probe = NoProbe

\* ------------------------------------------------------------ run_scenario
locals == <<island, pv_kw, soc_after, soc, bat_kw>>

\* The solver is deterministic after a recompilation: a later run of the
\* same scenario gets the answers of the first run, which are kept on
\* runs.tape while a caller that runs twice makes its first run.
Recording == runs.planned > 1 /\ runs.index = 1
Replaying == runs.index > 1

\* What a caller that runs twice lets the solver answer in its first run.
RerunSolutions == {SolNormal, SolReverse, SolEmptyPV}
RerunAnswers ==
    {StorageAnswer(TRUE, 0), StorageAnswer(TRUE, RESERVE_PCT + SOC_HYST)}

SolveChoices ==
    IF Replaying THEN {runs.tape[t + 1].sol}
    ELSE IF Recording THEN RerunSolutions ELSE Solutions

IslandChoices ==
    IF Replaying THEN {runs.tape[t + 1].isl} ELSE BOOLEAN

ControlChoices ==
    IF Replaying THEN {runs.tape[t + 1].a1}
    ELSE IF Recording THEN RerunAnswers ELSE LoopAnswers

BessChoices ==
    IF Replaying THEN {runs.tape[t + 1].a2}
    ELSE IF Recording THEN RerunAnswers ELSE LoopAnswers

\* The tape with field f of the current minute set to v.
Taped(f, v) ==
    IF ~Recording THEN runs
    ELSE IF f = "sol"
    THEN [runs EXCEPT !.tape =
            Append(@, [sol |-> v, isl |-> FALSE,
                       a1 |-> StorageAnswer(TRUE, 0),
                       a2 |-> StorageAnswer(TRUE, 0)])]
    ELSE IF f = "isl" THEN [runs EXCEPT !.tape[t + 1].isl = v]
    ELSE IF f = "a1" THEN [runs EXCEPT !.tape[t + 1].a1 = v]
    ELSE [runs EXCEPT !.tape[t + 1].a2 = v]

\* Variant: the carried state of charge outlives the run.
Start_carry ==
    /\ pc = "start"
    /\ \/ /\ pc' = "loop"
          /\ log' = log \o
                <<Call("command", "clear", -1),
                  Call("command", "compile", -1),
                  Call("command", "set mode=daily stepsize=1m number=1", -1),
                  Call("command", "edit pvsystem.pv1 daily", -1),
                  Call("command", "edit pvsystem.pv1 enabled", -1)>>
          /\ res' = init_results(MINUTES, HOMES)
          /\ prev_soc' = IF Replaying THEN prev_soc ELSE SOC_DEFAULT
          /\ t' = 0
       \/ \* the compile raises
          /\ ~Replaying
          /\ pc' = "aborted"
          /\ log' = log \o <<Call("command", "clear", -1),
                             Call("command", "compile", -1),
                             Call("raise", "compile", -1)>>
          /\ UNCHANGED <<res, prev_soc, t>>
    /\ UNCHANGED <<cfg, locals, sol, ctl, answer, runs, probe>>

\* compile_model, set_pv_profile, set_pv_enabled, init_results, prev_soc
Start ==
    /\ pc = "start"
    /\ \/ /\ pc' = "loop"
          /\ log' = log \o
                <<Call("command", "clear", -1),
                  Call("command", "compile", -1),
                  Call("command", "set mode=daily stepsize=1m number=1", -1),
                  Call("command", "edit pvsystem.pv1 daily", -1),
                  Call("command", "edit pvsystem.pv1 enabled", -1)>>
          /\ res' = init_results(MINUTES, HOMES)
          /\ prev_soc' = SOC_DEFAULT
          /\ t' = 0
       \/ \* the compile raises
          /\ ~Replaying
          /\ pc' = "aborted"
          /\ log' = log \o <<Call("command", "clear", -1),
                             Call("command", "compile", -1),
                             Call("raise", "compile", -1)>>
          /\ UNCHANGED <<res, prev_soc, t>>
    /\ UNCHANGED <<cfg, locals, sol, ctl, answer, runs, probe>>

\* for t in range(MINUTES): the scheduled commands of minute t
Events ==
    /\ pc = "loop"
    /\ t < MINUTES
    /\ pc' = "solve"
    /\ log' = log \o EventCalls(cfg.events, t)
    /\ UNCHANGED <<cfg, t, res, prev_soc, locals, sol, ctl, answer, runs,
                   probe>>

\* the loop is exhausted: return res
Return ==
    /\ pc = "loop"
    /\ t >= MINUTES
    /\ pc' = "done"
    /\ UNCHANGED <<cfg, t, res, prev_soc, locals, sol, log, ctl, answer, runs,
                   probe>>

\* Variant: the minute is solved twice.
Solve_twice ==
    /\ pc = "solve"
    /\ \/ /\ pc' = "detect"
          /\ log' = log \o <<Call("solve", "solve", t), Call("solve", "solve", t)>>
          /\ \E s \in SolveChoices :
                /\ sol' = s
                /\ runs' = Taped("sol", s)
       \/ /\ ~Replaying
          /\ pc' = "aborted"
          /\ log' = log \o <<Call("solve", "solve", t),
                             Call("raise", "solve", t)>>
          /\ UNCHANGED <<sol, runs>>
    /\ UNCHANGED <<cfg, t, res, prev_soc, locals, ctl, answer, probe>>

\* Variant: a failed solve is swallowed and the minute goes on.
Solve_swallow ==
    /\ pc = "solve"
    /\ \/ /\ pc' = "detect"
          /\ log' = Append(log, Call("solve", "solve", t))
          /\ \E s \in SolveChoices :
                /\ sol' = s
                /\ runs' = Taped("sol", s)
       \/ /\ ~Replaying
          /\ pc' = "detect"
          /\ log' = log \o <<Call("solve", "solve", t),
                             Call("raise", "solve", t)>>
          /\ UNCHANGED sol
          /\ runs' = Taped("sol", sol)
    /\ UNCHANGED <<cfg, t, res, prev_soc, locals, ctl, answer, probe>>

\* dss.Command("solve")
Solve ==
    /\ pc = "solve"
    /\ \/ /\ pc' = "detect"
          /\ log' = Append(log, Call("solve", "solve", t))
          /\ \E s \in SolveChoices :
                /\ sol' = s
                /\ runs' = Taped("sol", s)
       \/ \* the solve raises
          /\ ~Replaying
          /\ pc' = "aborted"
          /\ log' = log \o <<Call("solve", "solve", t),
                             Call("raise", "solve", t)>>
          /\ UNCHANGED <<sol, runs>>
    /\ UNCHANGED <<cfg, t, res, prev_soc, locals, ctl, answer, probe>>

\* Variant: the enabled state of whatever element is active is returned.
is_islanded_via_dummy_stale(ok, en) == en

\* is_islanded_via_dummy: ok is what SetActiveElement returned, en what
\* CktElement.Enabled() says of the element that is active then
is_islanded_via_dummy(ok, en) == ok /\ en

Detect ==
    /\ pc = "detect"
    /\ \E ok \in BOOLEAN, en \in BOOLEAN :
          /\ is_islanded_via_dummy(ok, en) \in IslandChoices
          /\ island' = is_islanded_via_dummy(ok, en)
          /\ res' = [res EXCEPT !.island_flag =
                        Append(@, IF is_islanded_via_dummy(ok, en) THEN 1 ELSE 0)]
          /\ runs' = Taped("isl", is_islanded_via_dummy(ok, en))
    /\ log' = Append(log, Call("read", "island", t))
    /\ pc' = "readpv"
    /\ UNCHANGED <<cfg, t, prev_soc, pv_kw, soc_after, soc, bat_kw, sol, ctl,
                   answer, probe>>

\* pv_kw = get_pv_kw(); res.pv_kw.append(pv_kw)
ReadPV ==
    /\ pc = "readpv"
    /\ \/ /\ ~pv_raises(sol)
          /\ log' = Append(log, Call("read", "pv", t))
          /\ pv_kw' = get_pv_kw(sol)
          /\ res' = [res EXCEPT !.pv_kw = Append(@, get_pv_kw(sol))]
          /\ pc' = "control"
       \/ /\ pv_raises(sol)
          /\ log' = log \o <<Call("read", "pv", t), Call("raise", "pv", t)>>
          /\ pc' = "aborted"
          /\ UNCHANGED <<pv_kw, res>>
    /\ UNCHANGED <<cfg, t, prev_soc, island, soc_after, soc, bat_kw, sol, ctl,
                   answer, runs, probe>>

\* soc_after = bess_control_step(island, pv_kw, prev_soc, cfg.bess_enabled)
Control ==
    /\ pc = "control"
    /\ \E ans \in ControlChoices :
          LET c == CtlRecord(island, pv_kw, prev_soc, cfg.bess_enabled, ans, t)
          IN /\ ctl' = c
             /\ soc_after' = c.ret
             /\ log' = log \o [i \in 1..c.reads |-> Call("read", "ctl soc", t)]
                           \o c.cmds
             /\ runs' = Taped("a1", ans)
    /\ pc' = "readbess"
    /\ UNCHANGED <<cfg, t, res, prev_soc, island, pv_kw, soc, bat_kw, sol,
                   answer, probe>>

\* soc, bat_kw = get_bess_soc_and_power()
ReadBess ==
    /\ pc = "readbess"
    /\ \E ans \in BessChoices :
          /\ soc' = bess_soc(ans)
          /\ bat_kw' = bess_power(ans, sol.batpw)
          /\ runs' = Taped("a2", ans)
    /\ log' = Append(log, Call("read", "bess", t))
    /\ pc' = "record"
    /\ UNCHANGED <<cfg, t, res, prev_soc, island, pv_kw, soc_after, sol, ctl,
                   answer, probe>>

\* soc = soc if soc > 0 else soc_after; the two appends; prev_soc = soc
RecordSoc ==
    /\ pc = "record"
    /\ soc' = RecordedSoc(soc, soc_after)
    /\ res' = [res EXCEPT !.soc_pct = Append(@, RecordedSoc(soc, soc_after)),
                          !.bat_kw = Append(@, bat_kw)]
    /\ prev_soc' = RecordedSoc(soc, soc_after)
    /\ pc' = "stability"
    /\ UNCHANGED <<cfg, t, island, pv_kw, soc_after, bat_kw, sol, log, ctl,
                   answer, runs, probe>>

\* if island and soc > RESERVE_PCT + SOC_HYST: res.stability_minutes += 1
Stability ==
    /\ pc = "stability"
    /\ res' = [res EXCEPT !.stability_minutes =
                  IF StableMinute(island, soc) THEN @ + 1 ELSE @]
    /\ log' = Append(log, Call("step", "stability", t))
    /\ pc' = "voltages"
    /\ UNCHANGED <<cfg, t, prev_soc, locals, sol, ctl, answer, runs, probe>>

\* for h in HOMES: res.voltages[h].append(get_bus_voltage_v(h))
Voltages ==
    /\ pc = "voltages"
    /\ res' = [res EXCEPT !.voltages =
                  [h \in HOMES |-> Append(@[h], get_bus_voltage_v(sol.busvm[h]))]]
    /\ log' = Append(log, Call("read", "voltages", t))
    /\ pc' = "load"
    /\ UNCHANGED <<cfg, t, prev_soc, locals, sol, ctl, answer, runs, probe>>

\* load_kw = get_total_load_kw(HOMES); res.load_kw.append(load_kw)
ReadLoad ==
    /\ pc = "load"
    /\ res' = [res EXCEPT !.load_kw = Append(@, get_total_load_kw(sol))]
    /\ log' = Append(log, Call("read", "load", t))
    /\ pc' = "supply"
    /\ UNCHANGED <<cfg, t, prev_soc, locals, sol, ctl, answer, runs, probe>>

\* res.supply_kw.append(max(0.0, pv_kw + bat_kw)); next t
Supply ==
    /\ pc = "supply"
    /\ res' = [res EXCEPT !.supply_kw = Append(@, SupplyOf(pv_kw, bat_kw))]
    /\ log' = Append(log, Call("step", "supply", t))
    /\ t' = t + 1
    /\ pc' = "loop"
    /\ UNCHANGED <<cfg, prev_soc, locals, sol, ctl, answer, runs, probe>>

Next ==
    \/ Start
    \/ Events
    \/ Return
    \/ Solve
    \/ Detect
    \/ ReadPV
    \/ Control
    \/ ReadBess
    \/ RecordSoc
    \/ Stability
    \/ Voltages
    \/ ReadLoad
    \/ Supply

Spec == Init /\ [][Next]_vars

\* ---------------------------------------- the controller called directly
\* Arguments and telemetry answers for a direct call of bess_control_step.
CtlPv == {-5, 0, 2, 3, 4, 15, 16}
CtlPrevSoc == {-10, 0, 190, 205, 206, 500, 950}
CtlAnswers ==
    {StorageAnswer(FALSE, 500), StorageAnswer(TRUE, NaN),
     StorageAnswer(TRUE, BadStr), StorageAnswer(TRUE, 0),
     StorageAnswer(TRUE, -5), StorageAnswer(TRUE, 190),
     StorageAnswer(TRUE, 205), StorageAnswer(TRUE, 206),
     StorageAnswer(TRUE, 500), StorageAnswer(TRUE, 949),
     StorageAnswer(TRUE, 950), StorageAnswer(TRUE, 1010)}

InitCtl ==
    /\ pc = "call"
    /\ \E en \in BOOLEAN : cfg = [ScenarioA EXCEPT !.bess_enabled = en]
    /\ t = 0
    /\ res = init_results(MINUTES, HOMES)
    /\ prev_soc \in CtlPrevSoc
    /\ island \in BOOLEAN
    /\ pv_kw \in CtlPv
    /\ soc_after = 0
    /\ soc = 0
    /\ bat_kw = 0
    /\ sol = SolNormal
    /\ log = <<>>
    /\ ctl = NoCtl
    /\ answer \in CtlAnswers
    /\ runs = Caller(1)
    /\ probe = NoProbe

\* bess_control_step(island, pv_kw, prev_soc, enabled) against `answer`
CallControl ==
    /\ pc = "call"
    /\ LET c == CtlRecord(island, pv_kw, prev_soc, cfg.bess_enabled, answer, t)
       IN /\ ctl' = c
          /\ soc_after' = c.ret
          /\ log' = log \o [i \in 1..c.reads |-> Call("read", "ctl soc", t)]
                        \o c.cmds
    /\ pc' = "returned"
    /\ UNCHANGED <<cfg, t, res, prev_soc, island, pv_kw, soc, bat_kw, sol,
                   answer, runs, probe>>

NextCtl == CallControl

SpecCtl == InitCtl /\ [][NextCtl]_vars

\* ------------------------------------------------ the same scenario again
InitRerun ==
    /\ pc = "start"
    /\ cfg \in Scenarios
    /\ t = 0
    /\ res = init_results(MINUTES, HOMES)
    /\ prev_soc = 0
    /\ island = FALSE
    /\ pv_kw = 0
    /\ soc_after = 0
    /\ soc = 0
    /\ bat_kw = 0
    /\ sol = SolNormal
    /\ log = <<>>
    /\ ctl = NoCtl
    /\ answer = StorageAnswer(FALSE, 0)
    /\ runs = Caller(CALLS)
    /\ probe = NoProbe

\* res = run_scenario(cfg) is called again with the same cfg; whatever the
\* last run left in the program and in the solver is still there.
Rerun ==
    /\ pc = "done"
    /\ runs.index < runs.planned
    /\ pc' = "start"
    /\ runs' = [runs EXCEPT !.index = @ + 1,
                            !.first = IF runs.index = 1 THEN res ELSE @]
    /\ log' = <<>>
    /\ UNCHANGED <<cfg, t, res, prev_soc, locals, sol, ctl, answer, probe>>

NextRerun ==
    \/ Next
    \/ Rerun

SpecRerun == InitRerun /\ [][NextRerun]_vars

\* --------------------------------------------- the readers called directly
\* Raw float readings around the two sanity bounds, on both sides of zero.
ReadRaw ==
    {NaN, -2 * POWER_LIMIT, -POWER_LIMIT - 1, -POWER_LIMIT, -5, 0, 230,
     VOLT_LIMIT, VOLT_LIMIT + 1, 2 * VOLT_LIMIT, POWER_LIMIT,
     POWER_LIMIT + 1, 2 * POWER_LIMIT}

\* probe.ok: whether SetActiveElement("vsource.dummy_1") succeeds;
\* probe.en: Enabled() of the element that is active after that call, which
\* is the previously active element when the selection failed;
\* probe.raw: the float handed to a guard.
InitRead ==
    /\ pc = "probe"
    /\ cfg = ScenarioA
    /\ t = 0
    /\ res = init_results(MINUTES, HOMES)
    /\ prev_soc = 0
    /\ island = FALSE
    /\ pv_kw = 0
    /\ soc_after = 0
    /\ soc = 0
    /\ bat_kw = 0
    /\ sol = SolNormal
    /\ log = <<>>
    /\ ctl = NoCtl
    /\ answer = StorageAnswer(FALSE, 0)
    /\ runs = Caller(1)
    /\ \E ok \in BOOLEAN, en \in BOOLEAN, raw \in ReadRaw :
          probe = [NoProbe EXCEPT !.ok = ok, !.en = en, !.raw = raw]

\* is_islanded_via_dummy()
CallDetect ==
    /\ pc = "probe"
    /\ probe' = [probe EXCEPT !.fn = "is_islanded_via_dummy",
                              !.flag = is_islanded_via_dummy(probe.ok, probe.en)]
    /\ pc' = "detected"
    /\ UNCHANGED <<cfg, t, res, prev_soc, locals, sol, log, ctl, answer, runs>>

\* limit_power(raw)
CallLimitPower ==
    /\ pc = "probe"
    /\ probe' = [probe EXCEPT !.fn = "limit_power",
                              !.val = limit_power(probe.raw)]
    /\ pc' = "limited"
    /\ UNCHANGED <<cfg, t, res, prev_soc, locals, sol, log, ctl, answer, runs>>

\* get_bus_voltage_v(bus) when VMagAngle() answers [raw, 0.0]
CallBusVoltage ==
    /\ pc = "probe"
    /\ probe' = [probe EXCEPT !.fn = "get_bus_voltage_v",
                              !.val = get_bus_voltage_v(Bus(TRUE, <<probe.raw, 0>>))]
    /\ pc' = "measured"
    /\ UNCHANGED <<cfg, t, res, prev_soc, locals, sol, log, ctl, answer, runs>>

NextRead ==
    \/ CallDetect
    \/ CallLimitPower
    \/ CallBusVoltage

SpecRead == InitRead /\ [][NextRead]_vars

\* ======================================================== the properties
AllLen(n) ==
    /\ Len(res.pv_kw) = n
    /\ Len(res.bat_kw) = n
    /\ Len(res.soc_pct) = n
    /\ Len(res.load_kw) = n
    /\ Len(res.supply_kw) = n
    /\ Len(res.island_flag) = n
    /\ \A h \in HOMES : Len(res.voltages[h]) = n

\* C1: when run_scenario has completed, every per-minute sequence (pv_kw,
\* bat_kw, soc_pct, load_kw, supply_kw, island_flag and each home's voltage
\* sequence) has exactly MINUTES entries; and at the end of loop iteration
\* number t-1, when the loop variable moves on to t, all of them have the
\* same length t.
C1_SequencesAligned ==
    /\ pc = "done" => AllLen(MINUTES)
    /\ pc = "loop" => AllLen(t)

C1_Witness ==
    /\ pc = "done"
    /\ t = MINUTES
    /\ Len(res.supply_kw) = MINUTES
    /\ \A h \in HOMES : Len(res.voltages[h]) = MINUTES

\* The reference tally of the first n recorded minutes.
Tally(n) ==
    Cardinality({i \in 1..n : /\ res.island_flag[i] = 1
                              /\ res.soc_pct[i] > RESERVE_PCT + SOC_HYST})

\* C2: stability_minutes is incremented in a minute exactly when that
\* minute's island_flag is 1 and its soc_pct is strictly above
\* RESERVE_PCT + SOC_HYST; so the counter equals the number of recorded
\* minutes with island_flag = 1 and soc_pct > 20.5 (a minute at exactly 20.5
\* is not counted).  Between the soc_pct append and the counter update the
\* minute just recorded is not yet tallied.
C2_StabilityTally ==
    /\ pc = "stability" =>
          res.stability_minutes = Tally(Len(res.soc_pct) - 1)
    /\ pc \notin {"stability", "call", "returned"} =>
          res.stability_minutes = Tally(Len(res.soc_pct))

C2_Witness ==
    /\ pc = "done"
    /\ res.stability_minutes = 1
    /\ \E i \in 1..MINUTES : /\ res.island_flag[i] = 1
                             /\ res.soc_pct[i] = RESERVE_PCT + SOC_HYST
    /\ \E i \in 1..MINUTES : /\ res.island_flag[i] = 1
                             /\ res.soc_pct[i] > RESERVE_PCT + SOC_HYST

\* C3: for every recorded minute, supply_kw equals max(0, pv_kw + bat_kw)
\* taken from the pv_kw and bat_kw entries of the same minute, and it is
\* never negative.
C3_SupplyDerived ==
    \A i \in 1..Len(res.supply_kw) :
        /\ res.supply_kw[i] >= 0
        /\ res.supply_kw[i] =
              (IF res.pv_kw[i] + res.bat_kw[i] > 0
               THEN res.pv_kw[i] + res.bat_kw[i] ELSE 0)

C3_Witness ==
    /\ pc = "done"
    /\ \E i \in 1..MINUTES : /\ res.pv_kw[i] + res.bat_kw[i] < 0
                             /\ res.supply_kw[i] = 0
    /\ \E i \in 1..MINUTES : res.supply_kw[i] > 0

\* The last storage command of the controller call.
LastCmd == ctl.cmds[Len(ctl.cmds)]
Idle == StorageCmd("IDLING", 0)

\* C4: a controller call with enabled = False issues exactly one storage
\* command, IDLING at 0 kW, reads no state-of-charge telemetry and returns
\* prev_soc unchanged, whatever is_island, pv_kw and prev_soc are.
C4_DisabledPassThrough ==
    (ctl.called /\ ~ctl.enabled) =>
        /\ ctl.cmds = <<Idle>>
        /\ ctl.reads = 0
        /\ ctl.ret = ctl.prev_soc
        /\ log = <<Idle>>

C4_Witness ==
    /\ pc = "returned"
    /\ ~ctl.enabled
    /\ ctl.is_island
    /\ ctl.prev_soc <= 0
    /\ ctl.ret = ctl.prev_soc
    /\ ctl.cmds = <<Idle>>

\* C5: in an enabled call with is_island true the last storage command is
\* IDLING at 0 kW exactly when the decision state of charge is at most
\* RESERVE_PCT + SOC_HYST (20.5, boundary included); otherwise it is
\* DISCHARGING at max(0, TARGET_LOAD_KW - pv_kw), which is never negative.
C5_IslandDispatch ==
    (ctl.called /\ ctl.enabled /\ ctl.is_island) =>
        /\ (LastCmd = Idle) <=> (ctl.ret <= RESERVE_PCT + SOC_HYST)
        /\ ctl.ret > RESERVE_PCT + SOC_HYST =>
              /\ LastCmd.arg = "DISCHARGING"
              /\ LastCmd.n >= 0
              /\ LastCmd.n = (IF TARGET_LOAD_KW - ctl.pv_kw > 0
                              THEN TARGET_LOAD_KW - ctl.pv_kw ELSE 0)

C5_Witness ==
    /\ pc = "returned"
    /\ ctl.enabled
    /\ ctl.is_island
    /\ ctl.ret = RESERVE_PCT + SOC_HYST
    /\ LastCmd = Idle

\* C6: in an enabled call with is_island false the last storage command is
\* CHARGING at PV_CHARGE_KW if and only if pv_kw > PV_CHARGE_MIN_KW and the
\* decision state of charge is strictly below SOC_MAX_CHARGE; in every other
\* case, a state of charge of exactly 95 included, it is IDLING at 0 kW.
C6_GridDispatch ==
    (ctl.called /\ ctl.enabled /\ ~ctl.is_island) =>
        /\ (LastCmd = StorageCmd("CHARGING", PV_CHARGE_KW))
              <=> (ctl.pv_kw > PV_CHARGE_MIN_KW /\ ctl.ret < SOC_MAX_CHARGE)
        /\ ~(ctl.pv_kw > PV_CHARGE_MIN_KW /\ ctl.ret < SOC_MAX_CHARGE)
              => LastCmd = Idle

C6_Witness ==
    /\ pc = "returned"
    /\ ctl.enabled
    /\ ~ctl.is_island
    /\ ctl.pv_kw = PV_CHARGE_MIN_KW
    /\ ctl.ret < SOC_MAX_CHARGE
    /\ LastCmd = Idle

\* C7 as stated: an enabled call with is_island true and prev_soc = 19.0
\* emits IDLING, regardless of pv_kw.
C7_AsStated ==
    (ctl.called /\ ctl.enabled /\ ctl.is_island /\ ctl.prev_soc = 190) =>
        LastCmd.arg = "IDLING"

\* C7 amended: an enabled call with is_island true and prev_soc = 19.0 emits
\* IDLING, regardless of pv_kw, provided the telemetry read of the call is
\* invalid or itself at most 20.5; a valid read above 20.5 replaces prev_soc
\* in the decision.
C7_IdleBelowReserve ==
    (/\ ctl.called /\ ctl.enabled /\ ctl.is_island /\ ctl.prev_soc = 190
     /\ ctl.read <= RESERVE_PCT + SOC_HYST) =>
        /\ LastCmd = Idle
        /\ \A i \in 1..Len(ctl.cmds) : ctl.cmds[i] = Idle

C7_Witness ==
    /\ pc = "returned"
    /\ ctl.enabled
    /\ ctl.is_island
    /\ ctl.prev_soc = 190
    /\ ctl.read = 0
    /\ ctl.ret = 190
    /\ ctl.pv_kw = 0
    /\ LastCmd = Idle

\* C8 as stated: an enabled call with is_island false and prev_soc = 95.0
\* is forced to IDLING even when pv_kw > PV_CHARGE_MIN_KW.
C8_AsStated ==
    (/\ ctl.called /\ ctl.enabled /\ ~ctl.is_island /\ ctl.prev_soc = 950
     /\ ctl.pv_kw > PV_CHARGE_MIN_KW) =>
        LastCmd.arg = "IDLING"

\* C8 amended: an enabled call with is_island false and prev_soc = 95.0 is
\* forced to IDLING even when pv_kw > PV_CHARGE_MIN_KW, provided the
\* telemetry read of the call is invalid or itself at least 95; a valid read
\* below 95 replaces prev_soc in the decision.
C8_IdleAtCap ==
    (/\ ctl.called /\ ctl.enabled /\ ~ctl.is_island /\ ctl.prev_soc = 950
     /\ ctl.pv_kw > PV_CHARGE_MIN_KW
     /\ (ctl.read <= 0 \/ ctl.read >= SOC_MAX_CHARGE)) =>
        LastCmd = Idle

C8_Witness ==
    /\ pc = "returned"
    /\ ctl.enabled
    /\ ~ctl.is_island
    /\ ctl.prev_soc = 950
    /\ ctl.read = 0
    /\ ctl.pv_kw = 3
    /\ ctl.cmds = <<Idle, Idle>>

\* A %stored answer the program treats as no reading: element absent,
\* unparsable text, NaN, or a value that is not positive.
InvalidAnswer(a) ==
    \/ ~a.sel
    \/ a.stored = BadStr
    \/ a.stored = NaN
    \/ a.stored <= 0

\* C9: in an enabled call, an invalid telemetry read (absent, NaN,
\* unparsable, or <= 0) makes the decision use prev_soc if prev_soc > 0 and
\* the default 40 otherwise; a valid read (> 0) is used as it is and
\* prev_soc is ignored.  Either way the call returns.
C9_ReadFallback ==
    (ctl.called /\ ctl.enabled) =>
        /\ pc = "returned"
        /\ ctl.reads = 1
        /\ InvalidAnswer(answer) =>
              ctl.ret = (IF ctl.prev_soc > 0 THEN ctl.prev_soc ELSE SOC_DEFAULT)
        /\ ~InvalidAnswer(answer) => ctl.ret = answer.stored

C9_Witness ==
    /\ pc = "returned"
    /\ ctl.enabled
    /\ answer = StorageAnswer(TRUE, NaN)
    /\ ctl.prev_soc = 0
    /\ ctl.ret = SOC_DEFAULT

\* The event schedule as a lookup: the commands keyed by minute m.
ScheduleAt(m) == IF m \in DOMAIN cfg.events THEN cfg.events[m] ELSE <<>>

IsEvent(c) == c.op = "event"
SolveIdxs == {i \in 1..Len(log) : log[i].op = "solve"}
Solved(m) == \E i \in SolveIdxs : log[i].n = m
PosOfSolve(m) == CHOOSE i \in SolveIdxs : log[i].n = m
LastSolve == IF SolveIdxs = {} THEN 0
             ELSE CHOOSE i \in SolveIdxs : \A j \in SolveIdxs : j <= i

\* The texts of the event commands logged strictly between lo and hi.
EventTextsIn(lo, hi) ==
    LET ev == SelectSeq(SubSeq(log, lo + 1, hi - 1), IsEvent)
    IN [i \in 1..Len(ev) |-> ev[i].arg]

\* C10: for every minute m of 0..MINUTES-1 whose solve has been issued, the
\* event commands issued after the solve of minute m-1 and before the solve
\* of minute m are exactly the commands the schedule lists for m, once each
\* and in list order (none if m is not a key); after the latest solve only
\* the commands of a minute whose solve is pending appear; a completed run
\* has solved every minute.  So a command keyed by a minute outside
\* 0..MINUTES-1 is never issued.  Stated of the call log as it stands
\* before and after each solve and when the run has ended.
C10_EventsOncePerMinute ==
    pc \in {"solve", "detect", "done", "aborted"} =>
        /\ \A m \in 0..(MINUTES - 1) :
              Solved(m) =>
                 /\ Cardinality({i \in SolveIdxs : log[i].n = m}) = 1
                 /\ m > 0 => Solved(m - 1)
                 /\ EventTextsIn(IF m = 0 THEN 0 ELSE PosOfSolve(m - 1),
                                 PosOfSolve(m)) = ScheduleAt(m)
        /\ \A i \in SolveIdxs : log[i].n \in 0..(MINUTES - 1)
        /\ EventTextsIn(LastSolve, Len(log) + 1) =
              (IF pc = "solve" THEN ScheduleAt(t) ELSE <<>>)
        /\ pc = "done" => \A m \in 0..(MINUTES - 1) : Solved(m)

C10_Witness ==
    /\ pc = "done"
    /\ cfg = ScenarioB
    /\ 0 \notin DOMAIN cfg.events
    /\ EventTextsIn(0, Len(log) + 1) = <<"edit line.sw2 enabled=no">>
    /\ EventTextsIn(PosOfSolve(0), PosOfSolve(1)) = cfg.events[1]

CompileBlock ==
    <<Call("command", "clear", -1),
      Call("command", "compile", -1),
      Call("command", "set mode=daily stepsize=1m number=1", -1),
      Call("command", "edit pvsystem.pv1 daily", -1),
      Call("command", "edit pvsystem.pv1 enabled", -1)>>

\* C11: every run_scenario call recompiles the solver model and resets the
\* carried state of charge to 40 and every result accumulator to empty
\* before its first event command or solve; so a run made again with the
\* same configuration, against a solver that answers after recompilation as
\* it did in the first run, returns the same stability_minutes (and the same
\* results altogether) as the first run.
C11_RerunIdentical ==
    /\ (pc \in {"loop", "solve"} /\ t = 0) =>
          /\ SubSeq(log, 1, 5) = CompileBlock
          /\ \A i \in 1..Len(log) : i > 5 => log[i].op = "event"
          /\ prev_soc = SOC_DEFAULT
          /\ res = init_results(MINUTES, HOMES)
    /\ (Replaying /\ pc = "done") =>
          /\ res.stability_minutes = runs.first.stability_minutes
          /\ res = runs.first

C11_Witness ==
    /\ Replaying
    /\ pc = "done"
    /\ cfg = ScenarioA
    /\ res.stability_minutes = 1
    /\ res.soc_pct[MINUTES] = RESERVE_PCT + SOC_HYST
    /\ res = runs.first

\* C12: the mode detector returns true only when vsource.dummy_1 was
\* selected and is enabled; when the selection fails it returns false,
\* whatever the enabled state of the element that is then active.
C12_DetectFailsClosed ==
    pc = "detected" =>
        /\ probe.flag => (probe.ok /\ probe.en)
        /\ ~probe.ok => ~probe.flag
        /\ (probe.ok /\ probe.en) => probe.flag

C12_Witness ==
    pc = "detected" /\ ~probe.ok /\ probe.en /\ ~probe.flag

\* What one rule with the single bound 1e6 would return for a reading.
OneRule(raw) == IF raw = NaN \/ raw > POWER_LIMIT THEN 0 ELSE raw

\* C13 as stated: the power guard and the voltage guard both replace a
\* reading that is NaN or greater than 1e6 by 0 and pass every reading at
\* or below 1e6 through unchanged.
C13_AsStated ==
    pc \in {"limited", "measured"} => probe.val = OneRule(probe.raw)

\* C13: the power guard replaces a reading that is NaN or whose magnitude
\* exceeds 1e6 by 0 and passes a reading of magnitude at most 1e6 through
\* unchanged; the voltage guard replaces a reading that is NaN or greater
\* than 1e4 by 0 and passes a reading at or below 1e4 through unchanged.
C13_GuardRules ==
    /\ pc = "limited" =>
          /\ (probe.raw = NaN \/ Abs(probe.raw) > POWER_LIMIT) => probe.val = 0
          /\ (probe.raw # NaN /\ Abs(probe.raw) <= POWER_LIMIT)
                => probe.val = probe.raw
    /\ pc = "measured" =>
          /\ (probe.raw = NaN \/ probe.raw > VOLT_LIMIT) => probe.val = 0
          /\ (probe.raw # NaN /\ probe.raw <= VOLT_LIMIT)
                => probe.val = probe.raw

C13_Witness ==
    pc = "limited" /\ probe.raw = -POWER_LIMIT - 1 /\ probe.val = 0

\* The calls of the run that raised.
Raised == {i \in 1..Len(log) : log[i].op = "raise"}

\* C14 as stated: no telemetry read of any minute aborts the loop; a run
\* ends early only where the compile or a solve failed.
C14_AsStated ==
    /\ \A i \in Raised : log[i].arg \in {"compile", "solve"}
    /\ pc = "aborted" => Raised # {}

\* The calls of the run that issued the command text a.
Issued(a) == {i \in 1..Len(log) : log[i].op \in {"command", "solve"} /\ log[i].arg = a}

\* C15: when the compile or the solve of minute t fails, the run is aborted
\* there: the failed call was issued once, it is the last thing the run
\* did, and the run never reaches the return of its results: the run is
\* aborted as soon as a call has raised, a run that returns has no failed
\* call behind it, and an aborted run did nothing after the failure.
C15_SolverFailureAborts ==
    /\ (log # <<>> /\ log[Len(log)].op = "raise") => pc = "aborted"
    /\ pc = "done" => Raised = {}
    /\ pc = "aborted" =>
          \A i \in Raised : log[i].arg \in {"compile", "solve"} =>
              /\ i = Len(log)
              /\ log[i - 1].arg = log[i].arg /\ log[i - 1].n = log[i].n
              /\ Cardinality({j \in Issued(log[i].arg) : log[j].n = log[i].n}) = 1
              /\ log[i].arg = "solve" => t = log[i].n /\ AllLen(t)
              /\ log[i].arg = "compile" => res = init_results(MINUTES, HOMES)

C15_Witness ==
    /\ pc = "aborted"
    /\ log[Len(log)] = Call("raise", "solve", 1)
    /\ Len(res.supply_kw) = 1

\* C16 as stated: every value appended to soc_pct and every prev_soc
\* passed to the dispatch controller lies in [0, 100] percent.
C16_AsStated ==
    /\ \A i \in 1..Len(res.soc_pct) :
          res.soc_pct[i] >= 0 /\ res.soc_pct[i] <= 1000
    /\ ctl.called => (ctl.prev_soc >= 0 /\ ctl.prev_soc <= 1000)

\* What a log entry is, as a step of the minute.
Kind(c) ==
    IF c.op = "command" THEN "setup"
    ELSE IF c.op = "storage" THEN "dispatch"
    ELSE IF c.op \in {"event", "solve", "raise"} THEN c.op
    ELSE c.arg

\* The steps that may directly follow each kind of step.
Follows ==
    [k \in {"setup", "event", "solve", "island", "pv", "ctl soc", "dispatch",
            "bess", "stability", "voltages", "load", "supply", "raise"} |->
        CASE k = "setup" -> {"setup", "event", "solve", "raise"}
          [] k = "event" -> {"event", "solve"}
          [] k = "solve" -> {"island", "raise"}
          [] k = "island" -> {"pv"}
          [] k = "pv" -> {"ctl soc", "dispatch", "raise"}
          [] k = "ctl soc" -> {"dispatch"}
          [] k = "dispatch" -> {"dispatch", "bess"}
          [] k = "bess" -> {"stability"}
          [] k = "stability" -> {"voltages"}
          [] k = "voltages" -> {"load"}
          [] k = "load" -> {"supply"}
          [] k = "supply" -> {"event", "solve"}
          [] OTHER -> {}]
After(k) == Follows[k]

\* The log from position i on is in order, given that the entry before it
\* is a step of kind k made in minute m (m = -1 before the first minute).
RECURSIVE InOrder(_, _, _)
InOrder(i, k, m) ==
    IF i > Len(log) THEN TRUE
    ELSE LET kc == Kind(log[i])
         IN /\ kc \in After(k)
            /\ log[i].op # "storage" =>
                  log[i].n = IF kc \in {"setup", "raise"} /\ k = "setup" THEN -1
                             ELSE IF k \in {"setup", "supply"} THEN m + 1
                             ELSE m
            /\ InOrder(i + 1, kc, IF log[i].op = "storage" THEN m ELSE log[i].n)

\* Where the minute of log entry j begins: the position after the last
\* supply append before j, or 1.
RECURSIVE MinuteStart(_)
MinuteStart(j) ==
    IF j <= 1 THEN 1
    ELSE IF Kind(log[j - 1]) = "supply" THEN j
    ELSE MinuteStart(j - 1)

\* The entries of the minute that the last log entry belongs to are in
\* order after the minute before it.
LastMinuteInOrder ==
    LET s == MinuteStart(Len(log))
    IN IF s = 1 THEN InOrder(1, "setup", -1)
       ELSE InOrder(s, "supply", log[s - 1].n)

\* The positions of the loop body after the solve.
InMinute ==
    {"detect", "readpv", "control", "readbess", "record", "stability",
     "voltages", "load", "supply"}

C18_AsStated ==
    (pc = "control" /\ ctl.called) => prev_soc = ctl.ret

\* C18: the prev_soc passed to the controller in the next minute is the
\* battery read made after the dispatch when that read is positive, and
\* the value the controller returned only when that read is not positive;
\* it is the value appended to soc_pct, and nothing changes it between the
\* append and the next controller call.
C18_CarriedSoc ==
    [][/\ pc = "control" =>
             /\ ctl'.prev_soc = prev_soc
             /\ soc_after' = ctl'.ret
       /\ pc = "record" =>
             /\ soc_after = ctl.ret
             /\ prev_soc' = IF soc > 0 THEN soc ELSE ctl.ret
             /\ res'.soc_pct = Append(res.soc_pct, prev_soc')
       /\ pc \notin {"start", "record"} => prev_soc' = prev_soc]_vars

C18_Witness ==
    /\ pc = "control"
    /\ t = 1
    /\ ctl.called /\ ctl.minute = 0
    /\ ctl.ret = RESERVE_PCT + SOC_HYST
    /\ prev_soc = 1010
    /\ res.soc_pct = <<1010>>

\* C19: inside the loop the carried prev_soc is positive and every value
\* appended to soc_pct is positive, whatever the telemetry reads return and
\* whether or not the battery is enabled; the controller is never called
\* with a prev_soc that would select its fixed default, and a battery read
\* that is not positive is recorded as the positive value the controller
\* returned.
C19_CarriedSocPositive ==
    /\ pc \in (InMinute \cup {"loop", "solve", "done"}) => prev_soc > 0
    /\ \A i \in 1..Len(res.soc_pct) : res.soc_pct[i] > 0
    /\ ctl.called => (ctl.prev_soc > 0 /\ ctl.ret > 0)
    /\ (ctl.called /\ ctl.enabled /\ ctl.read <= 0) => ctl.ret = ctl.prev_soc
    /\ pc \in {"readbess", "record"} => soc_after > 0
    /\ (pc = "stability" /\ soc # soc_after) =>
          (soc > 0 /\ soc = res.soc_pct[t + 1])
    /\ pc = "stability" => (soc = prev_soc /\ soc = res.soc_pct[t + 1])

C19_Witness ==
    /\ pc = "stability"
    /\ t = 1
    /\ ~cfg.bess_enabled
    /\ res.soc_pct = <<SOC_DEFAULT, SOC_DEFAULT>>
    /\ bat_kw = 0

\* The storage states the last controller call commanded.
Commanded == {ctl.cmds[i].arg : i \in 1..Len(ctl.cmds)}

\* The minute of a log entry; a storage command belongs to the minute of
\* the read that precedes it.
RECURSIVE MinuteOf(_)
MinuteOf(i) == IF log[i].op # "storage" THEN log[i].n ELSE MinuteOf(i - 1)

\* C20: no minute whose island flag is 1 sees a CHARGING command, no minute
\* whose island flag is 0 sees a DISCHARGING command, and a scenario with
\* the battery disabled sees neither in any minute.
\* The log of a run is read where a minute ends and where the run ends;
\* the controller call itself is read in every state.
C20_DispatchMatchesMode ==
    /\ pc \in {"loop", "done", "aborted"} =>
          \A i \in 1..Len(log) : log[i].op = "storage" =>
              /\ MinuteOf(i) + 1 <= Len(res.island_flag)
              /\ res.island_flag[MinuteOf(i) + 1] = 1 => log[i].arg # "CHARGING"
              /\ res.island_flag[MinuteOf(i) + 1] = 0 => log[i].arg # "DISCHARGING"
              /\ ~cfg.bess_enabled => log[i].arg = "IDLING"
    /\ ctl.called =>
          /\ ctl.is_island => "CHARGING" \notin Commanded
          /\ ~ctl.is_island => "DISCHARGING" \notin Commanded
          /\ ~ctl.enabled => Commanded = {"IDLING"}

C20_Witness ==
    /\ pc = "done"
    /\ cfg.bess_enabled
    /\ res.island_flag[1] = 1 /\ res.island_flag[2] = 0
    /\ \E i, j \in 1..Len(log) :
          /\ i < j
          /\ log[i].op = "storage" /\ log[i].arg = "DISCHARGING"
          /\ log[j].op = "storage" /\ log[j].arg = "CHARGING"

====
